---- MODULE Spec2Model ----
(***************************************************************************)
(* Runtime support of the tiny calculator compiler (runtime.c):            *)
(*   int64_t tiny_input()        prompt, flush, scanf("%" PRIi64), return  *)
(*   void    tiny_print(int64_t) printf("Output: %" PRIi64 "\n")           *)
(*                                                                         *)
(* An int64_t is kept at its width: four 16-bit limbs, least significant   *)
(* first, two's complement.  Text is a sequence of one-character strings.  *)
(***************************************************************************)
EXTENDS Integers, Sequences, FiniteSets, TLC

\* ------------------------------------------------------------- bounds
MaxCalls == 3
MaxInputLen == 3
MaxMixLen == 2
MaxLiveLen == 2

\* ------------------------------------------------- int64_t arithmetic
LimbBase == 2 ^ 16
Zero64 == <<0, 0, 0, 0>>
NLimbs == Len(Zero64)
Max64 == <<65535, 65535, 65535, 32767>>
Min64 == <<0, 0, 0, 32768>>

\* the sign bit of an int64_t
IsNeg64(v) == v[4] >= 32768

\* a limb < LimbBase widened to int64_t
Small64(n) == <<n, 0, 0, 0>>

\* v * m + a on 64 bits, unsigned, with the carry out of bit 63
MulAdd(v, m, a) ==
    LET t1 == v[1] * m + a
        t2 == v[2] * m + (t1 \div LimbBase)
        t3 == v[3] * m + (t2 \div LimbBase)
        t4 == v[4] * m + (t3 \div LimbBase)
    IN  [val |-> <<t1 % LimbBase, t2 % LimbBase, t3 % LimbBase, t4 % LimbBase>>,
         carry |-> t4 \div LimbBase]

\* two's complement negation modulo 2^64
Neg64(v) ==
    LET t1 == (LimbBase - 1 - v[1]) + 1
        t2 == (LimbBase - 1 - v[2]) + (t1 \div LimbBase)
        t3 == (LimbBase - 1 - v[3]) + (t2 \div LimbBase)
        t4 == (LimbBase - 1 - v[4]) + (t3 \div LimbBase)
    IN  <<t1 % LimbBase, t2 % LimbBase, t3 % LimbBase, t4 % LimbBase>>

\* unsigned 64-bit division by a small divisor: quotient and remainder
DivMod(v, d) ==
    LET t4 == v[4]
        t3 == (t4 % d) * LimbBase + v[3]
        t2 == (t3 % d) * LimbBase + v[2]
        t1 == (t2 % d) * LimbBase + v[1]
    IN  [quot |-> <<t1 \div d, t2 \div d, t3 \div d, t4 \div d>>, rem |-> t1 % d]

\* unsigned comparison u <= w
RECURSIVE LeqFrom(_, _, _)
LeqFrom(u, w, k) ==
    IF k = 0 THEN TRUE
    ELSE IF u[k] # w[k] THEN u[k] < w[k]
    ELSE LeqFrom(u, w, k - 1)

ULeq64(u, w) == LeqFrom(u, w, NLimbs)

\* ------------------------------------------------------------ characters
DigitChars == <<"0", "1", "2", "3", "4", "5", "6", "7", "8", "9">>
HexLower == <<"a", "b", "c", "d", "e", "f">>
HexUpper == <<"A", "B", "C", "D", "E", "F">>
Range(s) == {s[i] : i \in 1..Len(s)}

IsSpace(c) == c \in {" ", "\n", "\t", "\r", "\f"}
IsDecDigit(c) == c \in Range(DigitChars)
IsOctDigit(c) == c \in Range(SubSeq(DigitChars, 1, 8))
IsHexDigit(c) == c \in Range(DigitChars) \cup Range(HexLower) \cup Range(HexUpper)

IsDigitOf(c, base) ==
    IF base = 8 THEN IsOctDigit(c)
    ELSE IF base = 10 THEN IsDecDigit(c)
    ELSE IsHexDigit(c)

DigitVal(c) ==
    IF IsDecDigit(c) THEN (CHOOSE i \in 1..10 : DigitChars[i] = c) - 1
    ELSE IF c \in Range(HexLower) THEN (CHOOSE i \in 1..6 : HexLower[i] = c) + 9
    ELSE (CHOOSE i \in 1..6 : HexUpper[i] = c) + 9

\* ------------------------------------------------ printf("%" PRIi64)
\* the digits of an unsigned magnitude, most significant first
\* (each quotient is bound once, as a value, before the next division)
RECURSIVE Itoa(_)
Itoa(u) ==
    CHOOSE res \in
        {IF qr.quot = Zero64 THEN <<DigitChars[qr.rem + 1]>>
         ELSE Itoa(qr.quot) \o <<DigitChars[qr.rem + 1]>> :
            qr \in {DivMod(u, 10)}} : TRUE

\* a slip: the argument converted as a 32-bit int ("%d")
FormatAsInt32(v) ==
    LET lo == <<v[1], v[2], 0, 0>>
    IN  IF v[2] >= 32768
        THEN <<"-">> \o Itoa(<<(LimbBase - v[1]) % LimbBase,
                               (LimbBase - 1 - v[2]) + (IF v[1] = 0 THEN 1 ELSE 0), 0, 0>>)
        ELSE Itoa(lo)

\* the conversion %li of printf: sign, then the magnitude's digits
FormatI64(v) == IF IsNeg64(v) THEN <<"-">> \o Itoa(Neg64(v)) ELSE Itoa(v)

PromptText == <<"I", "n", "p", "u", "t", ":", " ">>
LabelText == <<"O", "u", "t", "p", "u", "t", ":", " ">>
NewLine == <<"\n">>

\* the bytes of printf("Output: %" PRIi64 "\n", x)
PrintBytes(v) == LabelText \o FormatI64(v) \o NewLine

\* ------------------------------------------------- scanf("%" PRIi64)
\* first index >= i that holds no white space (n + 1: none delivered)
RECURSIVE SkipWs(_, _, _)
SkipWs(s, i, n) == IF i <= n /\ IsSpace(s[i]) THEN SkipWs(s, i + 1, n) ELSE i

\* first index >= i that holds no digit of the base
RECURSIVE DigitsEnd(_, _, _, _)
DigitsEnd(s, i, n, base) ==
    IF i <= n /\ IsDigitOf(s[i], base) THEN DigitsEnd(s, i + 1, n, base) ELSE i

\* strtol's accumulation of s[i..j-1] in the base: magnitude and overflow
\* (each step's result is bound once, as a value, before the next step)
RECURSIVE Accumulate(_, _, _, _, _)
Accumulate(s, i, j, base, acc) ==
    IF i >= j THEN acc
    ELSE CHOOSE res \in
            {Accumulate(s, i + 1, j, base, a) :
                a \in {[val |-> r.val, ovf |-> acc.ovf \/ r.carry # 0] :
                        r \in {MulAdd(acc.val, base, DigitVal(s[i]))}}} : TRUE

ScanResult(st, p, v) == [st |-> st, pos |-> p, val |-> v]

\* the digits s[i..] of a number in the base, sign already read
ScanNumber(s, i, n, eof, base, neg) ==
    LET j == DigitsEnd(s, i, n, base)
        m == Accumulate(s, i, j, base, [val |-> Zero64, ovf |-> FALSE])
        fits == /\ ~m.ovf
                /\ IF neg THEN ULeq64(m.val, Min64) ELSE ULeq64(m.val, Max64)
    IN  IF j > n /\ ~eof THEN ScanResult("block", i, Zero64)
        ELSE IF ~fits THEN ScanResult("range", j, Zero64)
        ELSE ScanResult("ok", j, IF neg THEN Neg64(m.val) ELSE m.val)

\* the conversion %li of scanf on the stream s, read position p, of which
\* s[1..n] has been delivered and eof tells whether the stream ends there:
\* white space is skipped, then the longest prefix of a C integer (optional
\* sign; 0x/0X hexadecimal, leading 0 octal, else decimal) is the item, and
\* the character after it stays unread.  "block": more input is needed.
ScanItem(s, p, n, eof) ==
    LET i0 == SkipWs(s, p, n)
        signed == i0 <= n /\ s[i0] \in {"+", "-"}
        neg == i0 <= n /\ s[i0] = "-"
        i1 == IF signed THEN i0 + 1 ELSE i0
        i2 == i1 + 1
        i3 == i1 + 2
    IN  IF i0 > n THEN ScanResult(IF eof THEN "eof" ELSE "block", i0, Zero64)
        ELSE IF i1 > n THEN ScanResult(IF eof THEN "match" ELSE "block", i1, Zero64)
        ELSE IF s[i1] = "0" THEN
            IF i2 > n THEN
                IF eof THEN ScanResult("ok", i2, Zero64)
                ELSE ScanResult("block", i1, Zero64)
            ELSE IF s[i2] \in {"x", "X"} THEN
                IF i3 > n THEN ScanResult(IF eof THEN "match" ELSE "block", i3, Zero64)
                ELSE IF IsHexDigit(s[i3]) THEN ScanNumber(s, i3, n, eof, 16, neg)
                ELSE ScanResult("match", i3, Zero64)
            ELSE ScanNumber(s, i1, n, eof, 8, neg)
        ELSE IF IsDecDigit(s[i1]) THEN ScanNumber(s, i1, n, eof, 10, neg)
        ELSE ScanResult("match", i1, Zero64)

\* a slip: the character that ends the item is read and not pushed back
ScanEatsNext(s, p, n, eof) ==
    LET r == ScanItem(s, p, n, eof)
    IN  IF r.st \in {"ok", "range", "match"} /\ r.pos <= n
        THEN ScanResult(r.st, r.pos + 1, r.val) ELSE r

\* a slip: a stream with nothing delivered is taken for its end
ScanNoWait(s, p, n, eof) == ScanItem(s, p, n, TRUE)

\* scanf("%" PRIi64, &x): one conversion, %li
Scan(s, p, n, eof) == ScanItem(s, p, n, eof)

\* ------------------------------------------------------------- state
VARIABLES
    stdin,      \* every byte the input stream will ever hold
    avail,      \* stdin[1..avail] has been delivered to the process
    eof,        \* the stream has signalled its end after stdin[avail]
    pos,        \* stdin[pos] is the next unread byte
    mode,       \* buffering of stdout: "none", "line" or "full"
    out,        \* bytes of stdout that reached the device
    obuf,       \* bytes of stdout still in the stream's buffer
    pc,         \* "idle": in the caller; "L10".."L13": line of tiny_input
    x,          \* tiny_input's local x
    ret,        \* the value the last tiny_input call returned
    cur,        \* history of the call in progress
    log,        \* history: one record per completed call
    prompts,    \* history: executions of printf("Input: ")
    attempts    \* history: executions of scanf

vars == <<stdin, avail, eof, pos, mode, out, obuf, pc, x, ret, cur, log,
          prompts, attempts>>

Modes == {"none", "line", "full"}

\* what an uninitialized int64_t may hold
Indeterminate == {Zero64, <<48879, 57005, 1, 32767>>}

\* what a conversion of an unrepresentable number may store
RangeOutcomes == Indeterminate \cup {Max64, Min64}

\* arguments the caller passes to tiny_print
PrintArgs == {Small64(42), Neg64(Small64(7))}

LimbSamples == {0, 10, 32767, 32768, 65535}
Int64Samples == {<<a, b, c, d>> : a \in LimbSamples, b \in LimbSamples,
                                  c \in LimbSamples, d \in LimbSamples}

NoValue == <<>>
NoCall == [p0 |-> 0, b0 |-> 0, x0 |-> NoValue, st |-> "none"]

\* all bytes written to stdout so far, in order
Stream == out \o obuf

\* ----------------------------------------------------------- streams
\* index of the last new-line of s, 0 without one
RECURSIVE LastNewline(_, _)
LastNewline(s, i) ==
    IF i = 0 THEN 0 ELSE IF s[i] = "\n" THEN i ELSE LastNewline(s, i - 1)

\* stdio's write of bytes to stdout under the stream's buffering mode
StdoutWrite(bytes) ==
    LET all == obuf \o bytes
        k == LastNewline(all, Len(all))
    IN  IF mode = "none" THEN out' = out \o all /\ obuf' = <<>>
        ELSE IF mode = "line"
        THEN out' = out \o SubSeq(all, 1, k) /\ obuf' = SubSeq(all, k + 1, Len(all))
        ELSE out' = out /\ obuf' = all

CanCall == pc = "idle" /\ Len(log) < MaxCalls

\* ------------------------------------------------------- tiny_input
\* int64_t x;
tiny_input_enter ==
    /\ CanCall
    /\ pc' = "L10"
    /\ x' \in Indeterminate
    /\ cur' = [p0 |-> pos, b0 |-> Len(Stream), x0 |-> x', st |-> "none"]
    /\ UNCHANGED <<stdin, avail, eof, pos, mode, out, obuf, ret, log, prompts, attempts>>

\* printf("Input: ");
tiny_input_printf ==
    /\ pc = "L10"
    /\ StdoutWrite(PromptText)
    /\ prompts' = prompts + 1
    /\ pc' = "L11"
    /\ UNCHANGED <<stdin, avail, eof, pos, mode, x, ret, cur, log, attempts>>

\* a slip: the flush is left out
NoFflush ==
    /\ pc = "L11"
    /\ pc' = "L12"
    /\ UNCHANGED <<stdin, avail, eof, pos, mode, out, obuf, x, ret, cur, log,
                   prompts, attempts>>

\* fflush(stdout);
tiny_input_fflush ==
    /\ pc = "L11"
    /\ out' = out \o obuf
    /\ obuf' = <<>>
    /\ pc' = "L12"
    /\ UNCHANGED <<stdin, avail, eof, pos, mode, x, ret, cur, log, prompts, attempts>>

\* a slip: the conversion %d stores an int, the low 32 bits of x
StoredLow32(r) ==
    IF r.st = "ok" THEN {<<r.val[1], r.val[2], x[3], x[4]>>}
    ELSE IF r.st = "range" THEN RangeOutcomes
    ELSE {x}

\* a slip: a failed conversion stores 0
StoredZeroOnFailure(r) ==
    IF r.st = "ok" THEN {r.val}
    ELSE IF r.st = "range" THEN RangeOutcomes
    ELSE {Zero64}

\* what scanf leaves in x: the converted value, any value when the number
\* cannot be represented, and x untouched when nothing was converted
Stored(r) ==
    IF r.st = "ok" THEN {r.val}
    ELSE IF r.st = "range" THEN RangeOutcomes
    ELSE {x}

\* a slip: the call prompts and reads again after a failed conversion
ScanfRetry ==
    /\ pc = "L12"
    /\ \E r \in {Scan(stdin, pos, avail, eof)} :
           /\ r.st # "block"
           /\ pos' = r.pos
           /\ x' \in Stored(r)
           /\ cur' = [cur EXCEPT !.st = r.st]
           /\ pc' = IF r.st \in {"ok", "range"} THEN "L13" ELSE "L10"
    /\ attempts' = attempts + 1
    /\ UNCHANGED <<stdin, avail, eof, mode, out, obuf, ret, log, prompts>>

\* scanf("%" PRIi64, &x); waits until the conversion can be decided
tiny_input_scanf ==
    /\ pc = "L12"
    /\ \E r \in {Scan(stdin, pos, avail, eof)} :
           /\ r.st # "block"
           /\ pos' = r.pos
           /\ x' \in Stored(r)
           /\ cur' = [cur EXCEPT !.st = r.st]
    /\ attempts' = attempts + 1
    /\ pc' = "L13"
    /\ UNCHANGED <<stdin, avail, eof, mode, out, obuf, ret, log, prompts>>

\* return x;
tiny_input_return ==
    /\ pc = "L13"
    /\ ret' = x
    /\ log' = Append(log, [op |-> "in", arg |-> NoValue, ret |-> x, st |-> cur.st,
                           x0 |-> cur.x0, p0 |-> cur.p0, p1 |-> pos,
                           b0 |-> cur.b0, b1 |-> Len(Stream)])
    /\ pc' = "idle"
    /\ x' = NoValue
    /\ cur' = NoCall
    /\ UNCHANGED <<stdin, avail, eof, pos, mode, out, obuf, prompts, attempts>>

\* ------------------------------------------------------- tiny_print
\* a slip: the label is written without the value's new-line
PrintNoNewline(v) ==
    /\ CanCall
    /\ StdoutWrite(LabelText \o FormatI64(v))
    /\ log' = Append(log, [op |-> "out", arg |-> v, ret |-> NoValue, st |-> "none",
                           x0 |-> NoValue, p0 |-> pos, p1 |-> pos,
                           b0 |-> Len(Stream), b1 |-> Len(Stream')])
    /\ UNCHANGED <<stdin, avail, eof, pos, mode, pc, x, ret, cur, prompts, attempts>>

\* printf("Output: %" PRIi64 "\n", x);
tiny_print(v) ==
    /\ CanCall
    /\ StdoutWrite(PrintBytes(v))
    /\ log' = Append(log, [op |-> "out", arg |-> v, ret |-> NoValue, st |-> "none",
                           x0 |-> NoValue, p0 |-> pos, p1 |-> pos,
                           b0 |-> Len(Stream), b1 |-> Len(Stream')])
    /\ UNCHANGED <<stdin, avail, eof, pos, mode, pc, x, ret, cur, prompts, attempts>>

\* the compiled program calls tiny_print
tiny_print_call == \E v \in PrintArgs : tiny_print(v)

\* ------------------------------------------------------ environment
\* the input device delivers the next bytes
Deliver ==
    /\ avail < Len(stdin)
    /\ \E k \in (avail + 1)..Len(stdin) : avail' = k
    /\ UNCHANGED <<stdin, eof, pos, mode, out, obuf, pc, x, ret, cur, log,
                   prompts, attempts>>

\* the input device signals the end of the stream
Close ==
    /\ avail = Len(stdin)
    /\ ~eof
    /\ eof' = TRUE
    /\ UNCHANGED <<stdin, avail, pos, mode, out, obuf, pc, x, ret, cur, log,
                   prompts, attempts>>

\* ---------------------------------------------------- input streams
InAlphabet == {"0", "1", "8", "-", "+", " ", "x"}

RECURSIVE Strs(_, _)
Strs(A, n) ==
    IF n = 0 THEN {<<>>}
    ELSE LET S == Strs(A, n - 1)
         IN  S \cup {Append(s, c) : s \in {t \in S : Len(t) = n - 1}, c \in A}

ExtraInputs ==
    { <<"4", "2", "\n">>,
      <<"-", "7", "\n">>,
      <<"+", "5", "\n">>,
      <<"0", "1", "0", "\n">>,
      <<"0", "x", "1", "F", "\n">>,
      <<"1", "2", "a", "b", "\n">>,
      <<"a", "b", "c", " ", "5", "\n">>,
      <<"1", " ", "2", "\n", "\n", " ", "-", "3", "\n">>,
      <<"\t", "7", "\n", "0", "8", "\n">>,
      FormatI64(Max64) \o NewLine,
      FormatI64(Min64) \o NewLine,
      <<"9", "2", "2", "3", "3", "7", "2", "0", "3", "6", "8", "5", "4", "7", "7",
        "5", "8", "0", "8", "\n">> }

Inputs == Strs(InAlphabet, MaxInputLen) \cup ExtraInputs

MixAlphabet == {"8", " ", "x"}
MixInputs == Strs(MixAlphabet, MaxMixLen) \cup {<<"4", "2", "\n">>, <<"-", "7", "\n", "z">>}

LiveAlphabet == {"1", "-", " ", "x"}
LiveInputs == Strs(LiveAlphabet, MaxLiveLen) \cup {<<"4", "2", "\n">>, <<"\n", "0", "7", "\n">>}

\* ---------------------------------------------------- specifications
InitCommon ==
    /\ pos = 1
    /\ mode \in Modes
    /\ out = <<>>
    /\ obuf = <<>>
    /\ pc = "idle"
    /\ x = NoValue
    /\ ret = NoValue
    /\ cur = NoCall
    /\ log = <<>>
    /\ prompts = 0
    /\ attempts = 0

\* stdin redirected from a file: all of it is there, and its end is known
Init ==
    /\ stdin \in MixInputs
    /\ avail = Len(stdin)
    /\ eof = TRUE
    /\ InitCommon

\* a program that reads and prints
Next ==
    \/ tiny_input_enter
    \/ tiny_input_printf
    \/ tiny_input_fflush
    \/ tiny_input_scanf
    \/ tiny_input_return
    \/ tiny_print_call

Spec == Init /\ [][Next]_vars

InitIn ==
    /\ stdin \in Inputs
    /\ avail = Len(stdin)
    /\ eof = TRUE
    /\ InitCommon

\* a program that only reads
NextIn ==
    \/ tiny_input_enter
    \/ tiny_input_printf
    \/ tiny_input_fflush
    \/ tiny_input_scanf
    \/ tiny_input_return

SpecIn == InitIn /\ [][NextIn]_vars

\* a terminal or a pipe: bytes arrive while the program runs
InitLive ==
    /\ stdin \in LiveInputs
    /\ avail = 0
    /\ eof = FALSE
    /\ InitCommon

NextLive ==
    \/ Next
    \/ Deliver
    \/ Close

\* a call that can take its next step takes it; the caller and the input
\* device are under no obligation
Fairness ==
    /\ WF_vars(tiny_input_printf)
    /\ WF_vars(tiny_input_fflush)
    /\ WF_vars(tiny_input_scanf)
    /\ WF_vars(tiny_input_return)

SpecLive == InitLive /\ [][NextLive]_vars /\ Fairness

\* the program prints a value and its output line is fed back as its input
InitRT ==
    /\ stdin = <<>>
    /\ avail = 0
    /\ eof = FALSE
    /\ InitCommon

tiny_print_any ==
    /\ Len(log) = 0
    /\ \E v \in Int64Samples : tiny_print(v)

\* the text after the label, new-line included, becomes the input
Pipe ==
    /\ pc = "idle"
    /\ Len(log) = 1
    /\ log[1].op = "out"
    /\ stdin = <<>>
    /\ stdin' = SubSeq(Stream, Len(LabelText) + 1, Len(Stream) - 1) \o NewLine
    /\ avail' = Len(stdin')
    /\ UNCHANGED <<eof, pos, mode, out, obuf, pc, x, ret, cur, log, prompts, attempts>>

NextRT ==
    \/ tiny_print_any
    \/ Pipe
    \/ tiny_input_enter
    \/ tiny_input_printf
    \/ tiny_input_fflush
    \/ tiny_input_scanf
    \/ tiny_input_return

SpecRT == InitRT /\ [][NextRT]_vars

\* ======================================================== properties
\* what the claims speak of, stated without the operators of the model

\* value of digs read in base 10, digit by digit from index i, on 64 bits;
\* ovf: the value does not fit
RECURSIVE DecimalFrom(_, _, _)
DecimalFrom(digs, i, acc) ==
    IF i > Len(digs) THEN acc
    ELSE CHOOSE res \in
            {DecimalFrom(digs, i + 1, a) :
                a \in {[val |-> r.val, ovf |-> acc.ovf \/ r.carry # 0] :
                        r \in {MulAdd(acc.val, 10, DigitVal(digs[i]))}}} : TRUE

DecimalOf(digs) == DecimalFrom(digs, 1, [val |-> Zero64, ovf |-> FALSE])

AllDecDigits(s) == Len(s) > 0 /\ \A i \in 1..Len(s) : IsDecDigit(s[i])

HasSign(tok) == Len(tok) > 0 /\ tok[1] \in {"+", "-"}
Unsigned(tok) == IF HasSign(tok) THEN Tail(tok) ELSE tok

\* tok is an optionally signed decimal integer literal
IsDecLiteral(tok) == AllDecDigits(Unsigned(tok))

\* the literal's magnitude lies in the signed 64-bit range
LiteralInRange(tok) ==
    LET m == DecimalOf(Unsigned(tok))
    IN  /\ ~m.ovf
        /\ IF tok[1] = "-" THEN ULeq64(m.val, Min64) ELSE ULeq64(m.val, Max64)

\* the base-10 value of a literal in range
LiteralValue(tok) ==
    LET m == DecimalOf(Unsigned(tok))
    IN  IF tok[1] = "-" THEN Neg64(m.val) ELSE m.val

\* text is the base-10 rendering of v: '-' iff v < 0, digits only, no
\* leading zero, and the digits evaluate to v
IsDecimalOf(text, v) ==
    /\ Len(text) > 0
    /\ (text[1] = "-") = IsNeg64(v)
    /\ text[1] # "+"
    /\ AllDecDigits(Unsigned(text))
    /\ Len(Unsigned(text)) > 1 => Unsigned(text)[1] # "0"
    /\ LiteralInRange(text)
    /\ LiteralValue(text) = v

\* first index >= p of s that holds no white space, Len(s) + 1 without one
FirstNonWs(s, p) ==
    CHOOSE i \in p..(Len(s) + 1) :
        /\ i = Len(s) + 1 \/ ~IsSpace(s[i])
        /\ \A j \in p..(i - 1) : IsSpace(s[j])

\* first index >= i of s that holds white space, Len(s) + 1 without one
TokenEnd(s, i) ==
    CHOOSE e \in i..(Len(s) + 1) :
        /\ e = Len(s) + 1 \/ IsSpace(s[e])
        /\ \A j \in i..(e - 1) : ~IsSpace(s[j])

\* the next token of s at read position p (empty: the stream is exhausted)
NextToken(s, p) == SubSeq(s, FirstNonWs(s, p), TokenEnd(s, FirstNonWs(s, p)) - 1)

\* the bytes call k added to stdout
Segment(k) == SubSeq(Stream, log[k].b0 + 1, log[k].b1)

InCalls == {k \in 1..Len(log) : log[k].op = "in"}
OutCalls == {k \in 1..Len(log) : log[k].op = "out"}
Failed(k) == log[k].st \in {"eof", "match"}

\* seg is 'Output: ', the rendering of v, one new-line
IsOutputLine(seg, v) ==
    /\ Len(seg) >= Len(LabelText) + 2
    /\ SubSeq(seg, 1, Len(LabelText)) = LabelText
    /\ seg[Len(seg)] = "\n"
    /\ IsDecimalOf(SubSeq(seg, Len(LabelText) + 1, Len(seg) - 1), v)

MinText == <<"-", "9", "2", "2", "3", "3", "7", "2", "0", "3", "6", "8", "5", "4",
             "7", "7", "5", "8", "0", "8">>
MaxText == <<"9", "2", "2", "3", "3", "7", "2", "0", "3", "6", "8", "5", "4",
             "7", "7", "5", "8", "0", "7">>

\* C1: one tiny_print(v) appends exactly 'Output: ', the base-10 rendering of
\* v ('-' iff v < 0, no leading zeros, nothing else) and one new-line, for
\* every sampled v, the extremes 2^63 - 1 and -2^63 included
C1_PrintExact ==
    \A k \in OutCalls :
        /\ log[k].b0 = (IF k = 1 THEN 0 ELSE log[k - 1].b1)
        /\ IsOutputLine(Segment(k), log[k].arg)
        /\ log[k].arg = Min64 => Segment(k) = LabelText \o MinText \o NewLine
        /\ log[k].arg = Max64 => Segment(k) = LabelText \o MaxText \o NewLine

C1_Witness ==
    /\ Len(log) = 1
    /\ log[1].op = "out"
    /\ log[1].arg = Min64
    /\ Stream = LabelText \o MinText \o NewLine

\* C2 (as claimed): when the next token is an optionally signed decimal
\* literal in the signed 64-bit range, tiny_input returns its base-10 value
C2_DecimalRead ==
    \A k \in InCalls :
        LET tok == NextToken(stdin, log[k].p0)
        IN  (IsDecLiteral(tok) /\ LiteralInRange(tok)) =>
                (log[k].st = "ok" /\ log[k].ret = LiteralValue(tok))

\* C3: whenever a tiny_input call is at its scanf, waiting or about to read,
\* every byte written so far, the prompt 'Input: ' last, has left the buffer
\* for the device; and the call has read nothing before that point
C3_PromptBeforeRead ==
    /\ pc \in {"L10", "L11", "L12"} =>
            /\ pos = cur.p0
            /\ attempts = Cardinality(InCalls)
    /\ pc = "L12" =>
            /\ obuf = <<>>
            /\ Len(out) = cur.b0 + Len(PromptText)
            /\ SubSeq(out, cur.b0 + 1, Len(out)) = PromptText

C3_Witness ==
    /\ pc = "L12"
    /\ mode = "full"
    /\ avail < pos
    /\ ~eof
    /\ out = PromptText

\* C4: the text tiny_print(v) emits between 'Output: ' and the new-line
\* parses in base 10 back to v, and tiny_input, fed that text and a new-line,
\* returns v
C4_RoundTrip ==
    /\ (Len(log) >= 1 /\ log[1].op = "out") =>
            LET text == SubSeq(Segment(1), Len(LabelText) + 1, Len(Segment(1)) - 1)
            IN  /\ IsDecLiteral(text)
                /\ LiteralInRange(text)
                /\ LiteralValue(text) = log[1].arg
    /\ (Len(log) >= 2 /\ log[1].op = "out" /\ log[2].op = "in") =>
            /\ log[2].st = "ok"
            /\ log[2].ret = log[1].arg

C4_Witness ==
    /\ Len(log) = 2
    /\ log[1].op = "out"
    /\ log[1].arg = Min64
    /\ stdin = MinText \o NewLine
    /\ log[2].op = "in"
    /\ log[2].ret = Min64

\* s does not continue at i with the start of an integer: a digit, or a sign
\* and a digit
NoInteger(s, i) ==
    \/ i > Len(s)
    \/ /\ ~IsDecDigit(s[i])
       /\ ~(s[i] \in {"+", "-"} /\ i < Len(s) /\ IsDecDigit(s[i + 1]))

CountOf(s, c) == Cardinality({i \in 1..Len(s) : s[i] = c})

\* C6: each tiny_input call writes one prompt and makes one scanf attempt,
\* failed or not: at any moment the prompts written and the attempts made
\* are those of the completed calls plus the one in progress
C6_OnePromptOneAttempt ==
    /\ prompts = Cardinality(InCalls) + (IF pc \in {"L11", "L12", "L13"} THEN 1 ELSE 0)
    /\ attempts = Cardinality(InCalls) + (IF pc = "L13" THEN 1 ELSE 0)
    /\ CountOf(Stream, "I") = prompts
    /\ \A k \in InCalls : Segment(k) = PromptText

C6_Witness ==
    /\ pc = "idle"
    /\ Cardinality(InCalls) = 3
    /\ prompts = 3
    /\ attempts = 3
    /\ \E k \in InCalls, m \in InCalls : log[k].st = "ok" /\ log[m].st = "match"

\* C7: the bytes written to stdout are the calls' bytes in call order,
\* 'Input: ' for a tiny_input and 'Output: ' decimal(v) new-line for a
\* tiny_print(v), whatever came before; tiny_print reads nothing
C7_OutputIsConcatenation ==
    /\ \A k \in 1..Len(log) :
        /\ log[k].b0 = (IF k = 1 THEN 0 ELSE log[k - 1].b1)
        /\ log[k].op = "in" => Segment(k) = PromptText
        /\ log[k].op = "out" =>
                /\ IsOutputLine(Segment(k), log[k].arg)
                /\ log[k].p1 = log[k].p0
    /\ pc = "idle" => Len(Stream) = (IF log = <<>> THEN 0 ELSE log[Len(log)].b1)

C7_Witness ==
    /\ pc = "idle"
    /\ Len(log) = 3
    /\ log[1].op = "out"
    /\ log[2].op = "in"
    /\ log[3].op = "out"
    /\ log[1].arg = log[3].arg
    /\ Segment(1) = Segment(3)
    /\ Stream = Segment(1) \o PromptText \o Segment(3)

\* a complete token has been delivered, or the end of the stream signalled
TokenDelivered ==
    \/ eof
    \/ \E i \in pos..avail, j \in pos..avail :
            i < j /\ ~IsSpace(stdin[i]) /\ IsSpace(stdin[j])

\* nothing unread has been delivered and the stream has not ended
NoData == avail < pos /\ ~eof

\* C8: a tiny_input call returns once a complete token or the end of the
\* stream has been delivered; it leaves its scanf by no step while there is
\* neither data nor end of stream; tiny_print reads nothing and can always
\* be carried out
C8_BlocksUntilInput ==
    /\ (pc # "idle" /\ TokenDelivered) ~> (pc = "idle")
    /\ [][(pc = "L12" /\ NoData) => pc' = "L12"]_vars
    /\ [][(pc = "idle" /\ pc' = "idle" /\ log' # log) => (pos' = pos /\ avail' = avail)]_vars
    /\ [](CanCall => ENABLED tiny_print_call)

\* a call waits at its scanf, prompt shown, for bytes the device still holds
C8_Witness ==
    /\ pc = "L12"
    /\ NoData
    /\ avail < Len(stdin)
    /\ out = PromptText
    /\ ENABLED Deliver
    /\ ~ENABLED tiny_input_scanf

\* the tokens of s from read position p on: first and last index of each
RECURSIVE TokensFrom(_, _)
TokensFrom(s, p) ==
    IF FirstNonWs(s, p) > Len(s) THEN <<>>
    ELSE <<[from |-> FirstNonWs(s, p), to |-> TokenEnd(s, FirstNonWs(s, p)) - 1]>>
            \o TokensFrom(s, TokenEnd(s, FirstNonWs(s, p)))

TokenText(s, tk) == SubSeq(s, tk.from, tk.to)

\* s is one or more decimal literals in range, separated by white space
AllLiterals(s) ==
    /\ TokensFrom(s, 1) # <<>>
    /\ \A i \in 1..Len(TokensFrom(s, 1)) :
            /\ IsDecLiteral(TokenText(s, TokensFrom(s, 1)[i]))
            /\ LiteralInRange(TokenText(s, TokensFrom(s, 1)[i]))

\* a literal whose digits do not start with a superfluous 0
NoLeadingZero(tok) == Len(Unsigned(tok)) > 1 => Unsigned(tok)[1] # "0"

\* what C2 leaves true of the code: literals without a leading zero are read
\* in base 10
C2_HoldsWithoutLeadingZero ==
    \A k \in InCalls :
        LET tok == NextToken(stdin, log[k].p0)
        IN  (IsDecLiteral(tok) /\ LiteralInRange(tok) /\ NoLeadingZero(tok)) =>
                (log[k].st = "ok" /\ log[k].ret = LiteralValue(tok))

\* C9 (as claimed): when the input is k integer literals in range separated
\* by white space, the i-th consecutive tiny_input call returns the i-th
\* literal's value and stops reading right after that literal
C9_TokenPerCall ==
    AllLiterals(stdin) =>
        \A i \in 1..Len(log) :
            (i <= Len(TokensFrom(stdin, 1)) /\ \A j \in 1..i : log[j].op = "in") =>
                /\ log[i].st = "ok"
                /\ log[i].ret = LiteralValue(TokenText(stdin, TokensFrom(stdin, 1)[i]))
                /\ log[i].p1 = TokensFrom(stdin, 1)[i].to + 1

\* what C9 leaves true of the code: the same, for literals without a
\* leading zero
C9_HoldsWithoutLeadingZero ==
    (/\ AllLiterals(stdin)
     /\ \A i \in 1..Len(TokensFrom(stdin, 1)) :
            NoLeadingZero(TokenText(stdin, TokensFrom(stdin, 1)[i]))) =>
        \A i \in 1..Len(log) :
            (i <= Len(TokensFrom(stdin, 1)) /\ \A j \in 1..i : log[j].op = "in") =>
                /\ log[i].st = "ok"
                /\ log[i].ret = LiteralValue(TokenText(stdin, TokensFrom(stdin, 1)[i]))
                /\ log[i].p1 = TokensFrom(stdin, 1)[i].to + 1

\* the call found, after white space, the end of the stream or a character
\* that starts no integer literal: neither a sign nor a digit
NoLiteralStart(s, i) == i > Len(s) \/ ~(IsDecDigit(s[i]) \/ s[i] \in {"+", "-"})

\* C10: a tiny_input call that fails because the next input after white space
\* starts no integer literal leaves the offending character unread, so every
\* later call fails too, each writing its one prompt; and after a call has
\* read to the end of the stream every later call fails
C10_StickyFailure ==
    \A k \in InCalls :
        /\ NoLiteralStart(stdin, FirstNonWs(stdin, log[k].p0)) =>
                /\ Failed(k)
                /\ log[k].p1 = FirstNonWs(stdin, log[k].p0)
                /\ \A m \in InCalls : m > k =>
                        /\ Failed(m)
                        /\ log[m].p1 = log[k].p1
                        /\ Segment(m) = PromptText
        /\ log[k].p1 > Len(stdin) =>
                \A m \in InCalls : m > k => (log[m].st = "eof" /\ Segment(m) = PromptText)

\* a bad token before a valid integer: two calls failed on it
C10_Witness ==
    /\ stdin = <<"x", " ", "1">>
    /\ Len(log) = 2
    /\ log[1].st = "match"
    /\ log[2].st = "match"
    /\ log[2].p1 = 1

====
